---------------------------- MODULE Spec2Model ----------------------------
(***************************************************************************)
(* Retrieval subsystem of the labour-safety assistant.                     *)
(*                                                                         *)
(*   src/app/ai/core.py           SimpleKnowledgeBase, AdvancedKnowledgeBase *)
(*   src/app/ai/advanced_core.py  EnhancedKnowledgeBase                     *)
(*   src/app/main.py              chat handlers                             *)
(*                                                                         *)
(* Python strings are sequences of one-character strings.  A knowledge     *)
(* base object is the triple of attributes documents / embeddings /        *)
(* vectorstore; an attribute that no assignment has created yet holds      *)
(* Unset, and reading it raises AttributeError as in Python.               *)
(***************************************************************************)
EXTENDS Integers, Sequences, FiniteSets, TLC

-----------------------------------------------------------------------------
(* Bounds of the model *)

\* longest query, in words
MaxQueryWords == 3
\* largest result limit k passed to a search
MaxK == 3
\* how many times load_existing_documents may run on one object
MaxLoads == 2
\* chunk_size used by load_existing_documents; the source's default is 1000
\* (core.py:63), scaled down so that short texts are cut into several chunks
ChunkSizeDefault == 5
\* messages the bot receives in one run
MaxMessages == 3
\* longest text handed to simple_split_text on its own
MaxTextLen == 6
\* largest chunk_size handed to simple_split_text on its own
MaxChunkSize == 4
\* phrases in a query handed to analyze_query
MaxPhrases == 3
\* longest text of the calls followed to their return
MaxFollowedLen == 3

-----------------------------------------------------------------------------
(* Strings *)

\* an attribute no assignment has created, and Python's None
Unset == "UNSET"
None == "None"

\* the documents attribute: absent, or a list
NoList == [set |-> FALSE, items |-> << >>]
List(xs) == [set |-> TRUE, items |-> xs]

Whitespace == {" ", "\n"}

\* str.lower() on one character
LowerChar(c) ==
  CASE c = "A" -> "a"
    [] c = "B" -> "b"
    [] c = "F" -> "f"
    [] c = "K" -> "k"
    [] c = "O" -> "o"
    [] c = "T" -> "t"
    [] OTHER -> c

\* str.lower()
Lower(s) == [i \in 1..Len(s) |-> LowerChar(s[i])]

\* s[a:b] for 0 <= a, b  (Python slice, clipped to the string)
Slice(s, a, b) ==
  LET hi == IF b < Len(s) THEN b ELSE Len(s)
  IN  IF a >= hi THEN << >> ELSE SubSeq(s, a + 1, hi)

\* needle in hay
Contains(hay, needle) ==
  \E i \in 0..(Len(hay) - Len(needle)) : Slice(hay, i, i + Len(needle)) = needle

\* str.strip()
RECURSIVE LStrip(_)
LStrip(s) == IF s # << >> /\ Head(s) \in Whitespace THEN LStrip(Tail(s)) ELSE s

RECURSIVE RStrip(_)
RStrip(s) ==
  IF s # << >> /\ s[Len(s)] \in Whitespace THEN RStrip(SubSeq(s, 1, Len(s) - 1)) ELSE s

Strip(s) == RStrip(LStrip(s))

\* str.split() without arguments: the maximal runs of non-whitespace
RECURSIVE SplitFrom(_, _, _)
SplitFrom(s, cur, acc) ==
  IF s = << >>
    THEN IF cur = << >> THEN acc ELSE Append(acc, cur)
    ELSE IF Head(s) \in Whitespace
           THEN SplitFrom(Tail(s), << >>, IF cur = << >> THEN acc ELSE Append(acc, cur))
           ELSE SplitFrom(Tail(s), Append(cur, Head(s)), acc)

Split(s) == SplitFrom(s, << >>, << >>)

\* variant: the lowest index instead of the highest
FindFirst(text, sep, start, end) ==
  LET hi == IF end < Len(text) THEN end ELSE Len(text)
      at == {i \in start..(hi - Len(sep)) : Slice(text, i, i + Len(sep)) = sep}
  IN  IF at = {} THEN -1 ELSE CHOOSE i \in at : \A j \in at : i <= j

\* text.rfind(sep, start, end): the highest index at which sep lies wholly
\* inside text[start:end], or -1
RFind(text, sep, start, end) ==
  LET hi == IF end < Len(text) THEN end ELSE Len(text)
      at == {i \in start..(hi - Len(sep)) : Slice(text, i, i + Len(sep)) = sep}
  IN  IF at = {} THEN -1 ELSE CHOOSE i \in at : \A j \in at : j <= i

-----------------------------------------------------------------------------
(* Text chunker: SimpleKnowledgeBase.simple_split_text *)

\* the separators tried in order, core.py:73
BreakChars == << <<".", " ">>, <<"\n", "\n">>, <<"\n">>, <<" ">> >>

\* the first separator of BreakChars, from position i on, that occurs in the window
RECURSIVE BreakEnd(_, _, _, _)
BreakEnd(text, start, end, i) ==
  IF i > Len(BreakChars)
    THEN end
    ELSE LET break_pos == RFind(text, BreakChars[i], start, end)
         IN  IF break_pos # -1
               THEN break_pos + Len(BreakChars[i])
               ELSE BreakEnd(text, start, end, i + 1)

\* variant: a cut in front of the separator instead of behind it
CutEndBeforeSeparator(text, start, chunk_size) ==
  LET end == start + chunk_size
      found == {i \in 1..Len(BreakChars) : RFind(text, BreakChars[i], start, end) # -1}
  IN  IF end < Len(text) /\ found # {}
        THEN RFind(text, BreakChars[CHOOSE i \in found : \A j \in found : i <= j],
                   start, end)
        ELSE end

\* variant: a window one character too wide
CutEndWide(text, start, chunk_size) ==
  LET end == start + chunk_size + 1
  IN  IF end < Len(text) THEN BreakEnd(text, start, end, 1) ELSE end

\* the value of end at core.py:79 for the iteration that begins at start
CutEnd(text, start, chunk_size) ==
  LET end == start + chunk_size
  IN  IF end < Len(text) THEN BreakEnd(text, start, end, 1) ELSE end

\* variant: the slice stops one character early
ChunkOfShort(text, start, end) == Strip(Slice(text, start, end - 1))

\* chunk at core.py:79
ChunkOf(text, start, end) == Strip(Slice(text, start, end))

\* the while loop of simple_split_text
RECURSIVE SplitLoop(_, _, _, _)
SplitLoop(text, start, chunk_size, chunks) ==
  IF start < Len(text)
    THEN LET end == CutEnd(text, start, chunk_size)
             chunk == ChunkOf(text, start, end)
         IN  SplitLoop(text, end, chunk_size,
                       IF chunk # << >> THEN Append(chunks, chunk) ELSE chunks)
    ELSE chunks

simple_split_text(text, chunk_size) == SplitLoop(text, 0, chunk_size, << >>)

-----------------------------------------------------------------------------
(* Ingestion: SimpleKnowledgeBase.load_existing_documents *)

\* variant: sequence indices that start at 1
FileFragmentsOneBased(file) ==
  IF ~file.readable \/ Strip(file.text) = << >>
    THEN << >>
    ELSE LET chunks == simple_split_text(file.text, ChunkSizeDefault)
         IN  [i \in 1..Len(chunks) |->
                [content |-> chunks[i], source |-> file.name, chunk |-> i,
                 type |-> "law"]]

\* the fragments one file contributes (core.py:43-59); an unreadable file
\* raises inside the try and contributes nothing
FileFragments(file) ==
  IF ~file.readable \/ Strip(file.text) = << >>
    THEN << >>
    ELSE LET chunks == simple_split_text(file.text, ChunkSizeDefault)
         IN  [i \in 1..Len(chunks) |->
                [content |-> chunks[i], source |-> file.name, chunk |-> i - 1,
                 type |-> "law"]]

\* variant: the first file that cannot be read ends the run
RECURSIVE FilesFragmentsAbort(_)
FilesFragmentsAbort(files) ==
  IF files = << >> \/ ~Head(files).readable THEN << >>
  ELSE FileFragments(Head(files)) \o FilesFragmentsAbort(Tail(files))

\* the fragments appended by one run over the files of data/texts, in glob order
RECURSIVE FilesFragments(_)
FilesFragments(files) ==
  IF files = << >> THEN << >>
  ELSE FileFragments(Head(files)) \o FilesFragments(Tail(files))

DiskFragments(d) == IF d.exists THEN FilesFragments(d.files) ELSE << >>

Ret(v) == [kind |-> "ret", val |-> v]
Raise(e) == [kind |-> "raise", val |-> e]

\* load_existing_documents on an object whose documents attribute holds docs:
\* the new value of documents and the outcome of the call.  Without the
\* attribute every append raises inside the per-file try and is logged, and
\* len(self.documents) at core.py:61 raises out of the call.
\* variant: a load that starts again from an empty list
LoadReplacing(docs, d) ==
  IF ~docs.set
    THEN [documents |-> docs, out |-> Raise("AttributeError")]
    ELSE [documents |-> List(DiskFragments(d)), out |-> Ret(None)]

load_existing_documents(docs, d) ==
  IF ~docs.set
    THEN [documents |-> docs, out |-> Raise("AttributeError")]
    ELSE [documents |-> List(docs.items \o DiskFragments(d)), out |-> Ret(None)]

-----------------------------------------------------------------------------
(* Lexical search: SimpleKnowledgeBase.search *)

\* score after the loop of core.py:97-99: one per query word (repetitions
\* included) longer than 3 characters that occurs in the lowercased content
\* variant: a repeated query word counted once
RawScoreDistinct(query_words, content_lower) ==
  Cardinality({w \in {query_words[i] : i \in 1..Len(query_words)} :
                 Len(w) > 3 /\ Contains(content_lower, w)})

RawScore(query_words, content_lower) ==
  Cardinality({i \in 1..Len(query_words) :
                 Len(query_words[i]) > 3 /\ Contains(content_lower, query_words[i])})

\* min(score / len(query_words), 1.0) as the fraction num/den
Normalized(score, n_words) ==
  IF n_words = 0 THEN [num |-> 0, den |-> 1]
  ELSE IF score > n_words THEN [num |-> 1, den |-> 1]
  ELSE [num |-> score, den |-> n_words]

\* x < y on fractions with positive denominators
FracLess(x, y) == x.num * y.den < y.num * x.den
FracEq(x, y) == x.num * y.den = y.num * x.den

\* variant: every fragment kept, whatever its score
ScoredKeepAll(docs, query_words) ==
  [i \in 1..Len(docs) |->
     [content |-> docs[i].content, source |-> docs[i].source,
      chunk |-> docs[i].chunk, type |-> docs[i].type,
      score |-> Normalized(RawScore(query_words, Lower(docs[i].content)),
                           Len(query_words))]]

\* the (Document, score) pairs appended at core.py:101-113, in store order
RECURSIVE Scored(_, _)
Scored(docs, query_words) ==
  IF docs = << >> THEN << >>
  ELSE LET doc == Head(docs)
           score == RawScore(query_words, Lower(doc.content))
           rest == Scored(Tail(docs), query_words)
       IN  IF score > 0
             THEN << [content |-> doc.content, source |-> doc.source,
                      chunk |-> doc.chunk, type |-> doc.type,
                      score |-> Normalized(score, Len(query_words))] >> \o rest
             ELSE rest

\* variant: a descending sort that puts a new element before its equals
RECURSIVE InsertDescBeforeEqual(_, _)
InsertDescBeforeEqual(sorted, r) ==
  IF sorted = << >> THEN << r >>
  ELSE IF ~FracLess(r.score, Head(sorted).score)
         THEN << r >> \o sorted
         ELSE << Head(sorted) >> \o InsertDescBeforeEqual(Tail(sorted), r)

\* list.sort(key=score, reverse=True): descending, equal keys keep their order
RECURSIVE InsertDesc(_, _)
InsertDesc(sorted, r) ==
  IF sorted = << >> THEN << r >>
  ELSE IF FracLess(Head(sorted).score, r.score)
         THEN << r >> \o sorted
         ELSE << Head(sorted) >> \o InsertDesc(Tail(sorted), r)

RECURSIVE SortDesc(_, _)
SortDesc(rs, acc) ==
  IF rs = << >> THEN acc ELSE SortDesc(Tail(rs), InsertDesc(acc, Head(rs)))

\* variant: a slice one element too long
TopInclusive(rs, k) == Slice(rs, 0, k + 1)

\* results[:k] for k >= 0
Top(rs, k) == Slice(rs, 0, k)

\* the list a completed lexical search returns
LexicalResults(docs, query, k) ==
  Top(SortDesc(Scored(docs, Split(Lower(query))), << >>), k)

\* SimpleKnowledgeBase.search on an object whose documents attribute holds
\* docs.  Document is bound only when the LangChain import succeeded
\* (core.py:11-20), so building the first hit raises NameError without it.
SimpleSearch(docs, importOk, query, k) ==
  IF ~docs.set THEN Raise("AttributeError")
  ELSE IF ~importOk /\ Scored(docs.items, Split(Lower(query))) # << >>
         THEN Raise("NameError")
  ELSE Ret(LexicalResults(docs.items, query, k))

-----------------------------------------------------------------------------
(* Vector-backed search: AdvancedKnowledgeBase.search *)

\* What the Chroma index answers to similarity_search_with_relevance_scores
\* (core.py:186) is outside the repository: the call either raises or hands
\* back the first k entries of some ranked list of the index.
VectorHit(content, source, num) ==
  [content |-> content, source |-> source, chunk |-> 0, type |-> "law",
   score |-> [num |-> num, den |-> 10]]

VectorAnswers ==
  { << >>,
    << VectorHit(<<"a", "b", "c", "d">>, <<"t", "k">>, 9),
       VectorHit(<<"b", "c", "d", "a">>, <<"F", "z">>, 4) >>,
    << VectorHit(<<"b", "c", "d", "a">>, <<"F", "z">>, 9),
       VectorHit(<<"a", "b", "c", "d">>, <<"t", "k">>, 6),
       VectorHit(<<"a", "b", "c">>, <<"t", "k">>, 3) >> }

BackendOutcomes ==
  {[raises |-> TRUE, hits |-> << >>]}
    \cup {[raises |-> FALSE, hits |-> h] : h \in VectorAnswers}

\* AdvancedKnowledgeBase.search; backend is what the index does if it is asked
AdvancedSearch(vs, emb, docs, importOk, query, k, backend) ==
  IF vs = Unset THEN Raise("AttributeError")
  ELSE IF vs = None THEN SimpleSearch(docs, importOk, query, k)
  ELSE IF emb = Unset THEN Raise("AttributeError")
  ELSE IF emb = None THEN SimpleSearch(docs, importOk, query, k)
  ELSE IF backend.raises THEN SimpleSearch(docs, importOk, query, k)
  ELSE Ret(Top(backend.hits, k))

\* whether the call reaches the index (core.py:185-186)
AsksBackend(vs, emb) == vs \notin {Unset, None} /\ emb \notin {Unset, None}

\* self.search(query, k) as the object's class dispatches it
SelfSearch(cls, vs, emb, docs, importOk, query, k, backend) ==
  IF cls = "Simple"
    THEN SimpleSearch(docs, importOk, query, k)
    ELSE AdvancedSearch(vs, emb, docs, importOk, query, k, backend)

\* SimpleKnowledgeBase.get_document_count
get_document_count(docs) ==
  IF ~docs.set THEN Raise("AttributeError") ELSE Ret(Len(docs.items))

-----------------------------------------------------------------------------
(* Category filter: EnhancedKnowledgeBase.search_by_type *)

\* the candidates whose lowercased source contains the lowercased doc_type
RECURSIVE FilterByType(_, _)
FilterByType(results, doc_type) ==
  IF results = << >> THEN << >>
  ELSE LET rest == FilterByType(Tail(results), doc_type)
       IN  IF Contains(Lower(Head(results).source), Lower(doc_type))
             THEN << Head(results) >> \o rest
             ELSE rest

\* variant: the filtered list is returned even when it is empty
SearchByTypeStrict(all, doc_type, k) ==
  IF all.kind = "raise" THEN all
  ELSE IF doc_type # << >>
         THEN Ret(Top(FilterByType(all.val, doc_type), k))
  ELSE Ret(Top(all.val, k))

\* search_by_type given the outcome of self.search(query, k * 3); a falsy
\* doc_type (None or "", both written << >> here) skips the filter
search_by_type(all, doc_type, k) ==
  IF all.kind = "raise" THEN all
  ELSE IF doc_type # << >> /\ FilterByType(all.val, doc_type) # << >>
         THEN Ret(Top(FilterByType(all.val, doc_type), k))
  ELSE Ret(Top(all.val, k))

-----------------------------------------------------------------------------
(* Query classifier: EnhancedKnowledgeBase.analyze_query *)

\* The keywords of advanced_core.py:88-99 are Russian.  Each Cyrillic letter
\* is written as one ASCII character, a different one for each letter
\* (a b v g d e j z i y k l m n o p r s t u f h c q w x 7 8 6 3 2 9 for the
\* lowercase alphabet without io, in alphabetical order), so that one keyword
\* is a substring of a text exactly when it is in the source's spelling.
\* The categories are in the order of the dict literal.
Keywords ==
  << [law |-> "tk_rf",
      words |-> <<
        <<"o", "t", "p", "u", "s", "k">>,
        <<"r", "a", "b", "o", "q", "e", "e", " ", "v", "r", "e", "m", "9">>,
        <<"z", "a", "r", "p", "l", "a", "t", "a">>,
        <<"b", "o", "l", "6", "n", "i", "q", "n", "8", "y">>,
        <<"u", "v", "o", "l", "6", "n", "e", "n", "i", "e">>,
        <<"t", "r", "u", "d", "o", "v", "o", "y", " ", "d", "o", "g", "o", "v", "o", "r">>,
        <<"o", "t", "p", "u", "s", "k", "n", "8", "e">>,
        <<"g", "r", "a", "f", "i", "k", " ", "r", "a", "b", "o", "t", "8">> >>],
     [law |-> "426_fz",
      words |-> <<
        <<"s", "o", "u", "t">>,
        <<"s", "p", "e", "c", "i", "a", "l", "6", "n", "a", "9", " ", "o", "c", "e", "n", "k", "a">>,
        <<"v", "r", "e", "d", "n", "8", "e", " ", "u", "s", "l", "o", "v", "i", "9">>,
        <<"a", "t", "t", "e", "s", "t", "a", "c", "i", "9">>,
        <<"r", "a", "b", "o", "q", "e", "e", " ", "m", "e", "s", "t", "o">>,
        <<"k", "o", "m", "p", "e", "n", "s", "a", "c", "i", "i">>,
        <<"l", "6", "g", "o", "t", "8">> >>],
     [law |-> "2464_pp",
      words |-> <<
        <<"o", "b", "u", "q", "e", "n", "i", "e">>,
        <<"i", "n", "s", "t", "r", "u", "k", "t", "a", "j">>,
        <<"p", "r", "o", "v", "e", "r", "k", "a", " ", "z", "n", "a", "n", "i", "y">>,
        <<"k", "u", "r", "s", "8">>,
        <<"p", "r", "o", "g", "r", "a", "m", "m", "a", " ", "o", "b", "u", "q", "e", "n", "i", "9">>,
        <<"v", "v", "o", "d", "n", "8", "y", " ", "i", "n", "s", "t", "r", "u", "k", "t", "a", "j">> >>],
     [law |-> "776n_prikaz",
      words |-> <<
        <<"s", "u", "o", "t">>,
        <<"s", "i", "s", "t", "e", "m", "a", " ", "u", "p", "r", "a", "v", "l", "e", "n", "i", "9">>,
        <<"p", "o", "l", "i", "t", "i", "k", "a">>,
        <<"p", "r", "o", "c", "e", "d", "u", "r", "8">>,
        <<"m", "o", "n", "i", "t", "o", "r", "i", "n", "g">>,
        <<"a", "u", "d", "i", "t">>,
        <<"u", "p", "r", "a", "v", "l", "e", "n", "i", "e", " ", "r", "i", "s", "k", "a", "m", "i">> >>],
     [law |-> "772n_prikaz",
      words |-> <<
        <<"i", "n", "s", "t", "r", "u", "k", "c", "i", "9">>,
        <<"p", "r", "a", "v", "i", "l", "a">>,
        <<"r", "a", "z", "r", "a", "b", "o", "t", "k", "a">>,
        <<"s", "o", "d", "e", "r", "j", "a", "n", "i", "e">>,
        <<"u", "t", "v", "e", "r", "j", "d", "e", "n", "i", "e">>,
        <<"p", "e", "r", "e", "s", "m", "o", "t", "r">>,
        <<"o", "z", "n", "a", "k", "o", "m", "l", "e", "n", "i", "e">> >>] >>

\* sum(1 for word in words if word in query_lower), advanced_core.py:104
KeywordScore(words, query_lower) ==
  Cardinality({i \in 1..Len(words) : Contains(query_lower, words[i])})

\* the items of scores after the loop of advanced_core.py:103-106 has handled
\* the categories from position i on: a dict keeps insertion order
RECURSIVE ScoreItems(_, _)
ScoreItems(query_lower, i) ==
  IF i > Len(Keywords) THEN << >>
  ELSE LET score == KeywordScore(Keywords[i].words, query_lower)
           rest == ScoreItems(query_lower, i + 1)
       IN  IF score > 0
             THEN << [law |-> Keywords[i].law, score |-> score] >> \o rest
             ELSE rest

\* variant: a descending sort that puts a new item before its equals
RECURSIVE InsertByScoreBeforeEqual(_, _)
InsertByScoreBeforeEqual(sorted, item) ==
  IF sorted = << >> THEN << item >>
  ELSE IF Head(sorted).score <= item.score
         THEN << item >> \o sorted
         ELSE << Head(sorted) >> \o InsertByScoreBeforeEqual(Tail(sorted), item)

\* sorted(..., key=score, reverse=True) is stable: an item goes after the
\* items of equal score already placed (advanced_core.py:109)
RECURSIVE InsertByScore(_, _)
InsertByScore(sorted, item) ==
  IF sorted = << >> THEN << item >>
  ELSE IF Head(sorted).score < item.score
         THEN << item >> \o sorted
         ELSE << Head(sorted) >> \o InsertByScore(Tail(sorted), item)

RECURSIVE SortByScore(_, _)
SortByScore(items, acc) ==
  IF items = << >> THEN acc
  ELSE SortByScore(Tail(items), InsertByScore(acc, Head(items)))

RECURSIVE SumScores(_)
SumScores(items) ==
  IF items = << >> THEN 0 ELSE Head(items).score + SumScores(Tail(items))

\* variant: the sum over the suggested categories only
TotalOfSuggested(items) == SumScores(Top(SortByScore(items, << >>), 3))

\* sum(scores.values()), advanced_core.py:114
total_matches(items) == SumScores(items)

\* the dict analyze_query returns
analyze_query(query) ==
  LET items == ScoreItems(Lower(query), 1)
  IN  [query |-> query,
       suggested_laws |-> Top(SortByScore(items, << >>), 3),
       total_matches |-> total_matches(items)]

-----------------------------------------------------------------------------
(* Inputs *)

Abcd == <<"a", "b", "c", "d">>
Bcda == <<"b", "c", "d", "a">>
Abc == <<"a", "b", "c">>
AbcdCap == <<"A", "b", "c", "d">>

\* the words queries are made of: two long words, one of exactly three
\* characters, one with a capital
QueryVocab == {Abcd, Bcda, Abc, AbcdCap}

RECURSIVE JoinWords(_)
JoinWords(ws) ==
  IF ws = << >> THEN << >>
  ELSE IF Len(ws) = 1 THEN Head(ws)
  ELSE Head(ws) \o <<" ">> \o JoinWords(Tail(ws))

WordLists == UNION {[1..n -> QueryVocab] : n \in 0..MaxQueryWords}

\* the empty query, a blank one, and every list of words joined by spaces
Queries == {JoinWords(ws) : ws \in WordLists} \cup {<<" ", " ">>}

Limits == 0..MaxK

\* doc_type arguments: none, a match in another case, a partial match, no match
DocTypes == {<< >>, <<"T", "K">>, <<"z">>, <<"q">>}

\* phrases the classifier's queries are made of: keywords of every category,
\* one that contains another keyword and begins with a capital, one of two
\* words that contains another keyword, keywords of two categories side by
\* side, and a word that is no keyword
ClassifierPhrases ==
  { <<"o", "t", "p", "u", "s", "k">>,
    <<"O", "t", "p", "u", "s", "k", "n", "8", "e">>,
    <<"s", "o", "u", "t", " ", "s", "u", "o", "t">>,
    <<"v", "v", "o", "d", "n", "8", "y", " ", "i", "n", "s", "t", "r", "u", "k", "t", "a", "j">>,
    <<"p", "r", "a", "v", "i", "l", "a">>,
    <<"d", "a">> }

ClassifierQueries ==
  {JoinWords(ws) : ws \in UNION {[1..n -> ClassifierPhrases] : n \in 0..MaxPhrases}}

File(name, text, readable) == [name |-> name, text |-> text, readable |-> readable]

TkName == <<"t", "k">>
FzName == <<"F", "z">>
PpName == <<"p", "p">>

\* the states of data/texts the knowledge base is built over: the directory
\* missing, and directories with files in glob order
Disks ==
  { [exists |-> FALSE, files |-> << >>],
    [exists |-> TRUE, files |-> << >>],
    [exists |-> TRUE,
     files |-> << File(TkName, Abcd \o <<" ">> \o Abcd \o <<"a">>, TRUE),
                  File(FzName, AbcdCap, TRUE) >>],
    [exists |-> TRUE,
     files |-> << File(TkName, Abcd, FALSE),
                  File(FzName, <<" ", "\n">>, TRUE) >>],
    [exists |-> TRUE,
     files |-> << File(TkName, Abcd, FALSE),
                  File(FzName, Bcda \o <<".", " ">> \o Abcd \o <<"a">>, TRUE) >>],
    [exists |-> TRUE,
     files |-> << File(TkName, Abcd \o <<" ">> \o Abcd \o <<"a">>, TRUE),
                  File(PpName, Abcd, FALSE),
                  File(FzName, AbcdCap, TRUE) >>] }

-----------------------------------------------------------------------------
(* State *)

VARIABLES
  IMPORT_SUCCESS,  \* core.py:11-20, whether the LangChain import succeeded
  moduleState,     \* "loaded", or "NameError" when the class body cannot be built
  disk,            \* data/texts
  kbClass,         \* class of the knowledge base object, "none" before construction
  documents,       \* self.documents
  embeddings,      \* self.embeddings
  vectorstore,     \* self.vectorstore
  loads,           \* completed runs of load_existing_documents on the object
  last,            \* the call whose outcome the caller holds, NoCall between calls
  AI_ENABLED,      \* main.py:21/41, whether the bot has a knowledge base
  fsm,             \* FSMContext state of each user's chat
  tasks,           \* one handler task per received message, in order of arrival
  loop,            \* the task running synchronous code on the event loop, 0 if none
  chunker          \* the locals of a running simple_split_text call

kbVars == <<IMPORT_SUCCESS, moduleState, disk, kbClass, documents, embeddings,
            vectorstore, loads, last>>

botVars == <<AI_ENABLED, fsm, tasks, loop>>

vars == <<kbVars, botVars, chunker>>

\* two chats, enough for one user to wait on another
Users == {"u1", "u2"}

NotAsked == [raises |-> FALSE, hits |-> << >>]

Call(op, query, doc_type, k, asked, backend, out) ==
  [op |-> op, query |-> query, doc_type |-> doc_type, k |-> k,
   asked |-> asked, backend |-> backend, out |-> out]

NoCall == Call("none", << >>, << >>, 0, FALSE, NotAsked, Ret(None))

\* The annotation of search at core.py:87 names Document.  An interpreter
\* that evaluates annotations when the def statement runs cannot build the
\* class body without the import; one that defers them loads the module.
KBInit ==
  /\ IMPORT_SUCCESS \in BOOLEAN
  /\ moduleState \in (IF IMPORT_SUCCESS THEN {"loaded"} ELSE {"loaded", "NameError"})
  /\ disk \in Disks
  /\ kbClass = "none"
  /\ documents = NoList
  /\ embeddings = Unset
  /\ vectorstore = Unset
  /\ loads = 0
  /\ last = NoCall

-----------------------------------------------------------------------------
(* Construction *)

\* SimpleKnowledgeBase.__init__: an empty list, then one load (core.py:34-35)
SimpleInit(d) == load_existing_documents(List(<< >>), d).documents

ConstructSimple ==
  /\ moduleState = "loaded"
  /\ kbClass = "none"
  /\ kbClass' = "Simple"
  /\ documents' = SimpleInit(disk)
  /\ loads' = 1
  /\ last' = Call("__init__", << >>, << >>, 0, FALSE, NotAsked, Ret(None))
  /\ UNCHANGED <<botVars, chunker>>
  /\ UNCHANGED <<IMPORT_SUCCESS, moduleState, disk, embeddings, vectorstore>>

\* AdvancedKnowledgeBase.__init__ without the library (core.py:131-134)
ConstructAdvancedNoLibrary ==
  /\ moduleState = "loaded"
  /\ kbClass = "none"
  /\ ~IMPORT_SUCCESS
  /\ kbClass' = "Advanced"
  /\ documents' = SimpleInit(disk)
  /\ loads' = 1
  /\ last' = Call("__init__", << >>, << >>, 0, FALSE, NotAsked, Ret(None))
  /\ UNCHANGED <<botVars, chunker>>
  /\ UNCHANGED <<IMPORT_SUCCESS, moduleState, disk, embeddings, vectorstore>>

\* AdvancedKnowledgeBase.__init__ when HuggingFaceEmbeddings raises (core.py:152-157)
ConstructAdvancedModelFails ==
  /\ moduleState = "loaded"
  /\ kbClass = "none"
  /\ IMPORT_SUCCESS
  /\ kbClass' = "Advanced"
  /\ documents' = SimpleInit(disk)
  /\ embeddings' = None
  /\ loads' = 1
  /\ last' = Call("__init__", << >>, << >>, 0, FALSE, NotAsked, Ret(None))
  /\ UNCHANGED <<botVars, chunker>>
  /\ UNCHANGED <<IMPORT_SUCCESS, moduleState, disk, vectorstore>>

\* _load_or_create_vectorstore: the index file is absent, loads, or loading raises
IndexStates == {"absent", "loads", "raises"}

load_or_create_vectorstore(index) == IF index = "loads" THEN "store" ELSE None

\* AdvancedKnowledgeBase.__init__ with a working embedding model (core.py:136-160);
\* this path never runs SimpleKnowledgeBase.__init__
ConstructAdvancedModelOk ==
  /\ moduleState = "loaded"
  /\ kbClass = "none"
  /\ IMPORT_SUCCESS
  /\ \E index \in IndexStates :
       vectorstore' = load_or_create_vectorstore(index)
  /\ kbClass' = "Advanced"
  /\ embeddings' = "model"
  /\ last' = Call("__init__", << >>, << >>, 0, FALSE, NotAsked, Ret(None))
  /\ UNCHANGED <<botVars, chunker>>
  /\ UNCHANGED <<IMPORT_SUCCESS, moduleState, disk, documents, loads>>

-----------------------------------------------------------------------------
(* Calls on the constructed object *)

\* variant: a search that leaves the store in reverse order
SearchReversingStore ==
  /\ last.op = "none"
  /\ kbClass # "none"
  /\ \E query \in Queries, k \in Limits, backend \in BackendOutcomes :
       LET asked == kbClass = "Advanced" /\ AsksBackend(vectorstore, embeddings)
       IN  /\ (~asked => backend = NotAsked)
           /\ last' = Call("search", query, << >>, k, asked, backend,
                           SelfSearch(kbClass, vectorstore, embeddings, documents,
                                      IMPORT_SUCCESS, query, k, backend))
  /\ documents' = [documents EXCEPT
                     !.items = [i \in 1..Len(@) |-> @[Len(@) + 1 - i]]]
  /\ UNCHANGED <<botVars, chunker>>
  /\ UNCHANGED <<IMPORT_SUCCESS, moduleState, disk, kbClass,
                 embeddings, vectorstore, loads>>

\* kb.search(query, k)
Search ==
  /\ last.op = "none"
  /\ kbClass # "none"
  /\ \E query \in Queries, k \in Limits, backend \in BackendOutcomes :
       LET asked == kbClass = "Advanced" /\ AsksBackend(vectorstore, embeddings)
       IN  /\ (~asked => backend = NotAsked)
           /\ last' = Call("search", query, << >>, k, asked, backend,
                           SelfSearch(kbClass, vectorstore, embeddings, documents,
                                      IMPORT_SUCCESS, query, k, backend))
  /\ UNCHANGED <<botVars, chunker>>
  /\ UNCHANGED <<IMPORT_SUCCESS, moduleState, disk, kbClass, documents,
                 embeddings, vectorstore, loads>>

\* kb.get_document_count()
GetDocumentCount ==
  /\ last.op = "none"
  /\ kbClass # "none"
  /\ last' = Call("get_document_count", << >>, << >>, 0, FALSE, NotAsked,
                  get_document_count(documents))
  /\ UNCHANGED <<botVars, chunker>>
  /\ UNCHANGED <<IMPORT_SUCCESS, moduleState, disk, kbClass, documents,
                 embeddings, vectorstore, loads>>

\* kb.load_existing_documents() on the constructed object
LoadExistingDocuments ==
  /\ last.op = "none"
  /\ kbClass # "none"
  /\ loads < MaxLoads
  /\ LET r == load_existing_documents(documents, disk)
     IN  /\ documents' = r.documents
         /\ loads' = IF r.out.kind = "ret" THEN loads + 1 ELSE loads
         /\ last' = Call("load_existing_documents", << >>, << >>, 0, FALSE,
                         NotAsked, r.out)
  /\ UNCHANGED <<botVars, chunker>>
  /\ UNCHANGED <<IMPORT_SUCCESS, moduleState, disk, kbClass, embeddings, vectorstore>>

\* kb.search_by_type(query, doc_type, k); EnhancedKnowledgeBase adds methods
\* to AdvancedKnowledgeBase and no state (advanced_core.py:12-14)
SearchByType ==
  /\ last.op = "none"
  /\ kbClass = "Advanced"
  /\ \E query \in Queries, doc_type \in DocTypes, k \in Limits,
        backend \in BackendOutcomes :
       LET asked == AsksBackend(vectorstore, embeddings)
           all == SelfSearch(kbClass, vectorstore, embeddings, documents,
                             IMPORT_SUCCESS, query, k * 3, backend)
       IN  /\ (~asked => backend = NotAsked)
           /\ last' = Call("search_by_type", query, doc_type, k, asked, backend,
                           search_by_type(all, doc_type, k))
  /\ UNCHANGED <<botVars, chunker>>
  /\ UNCHANGED <<IMPORT_SUCCESS, moduleState, disk, kbClass, documents,
                 embeddings, vectorstore, loads>>

\* whether create_vectorstore_from_documents finds a document to index
HasIndexableFile(d) ==
  d.exists /\ \E i \in 1..Len(d.files) :
                d.files[i].readable /\ Strip(d.files[i].text) # << >>

\* kb.create_vectorstore_from_documents(): builds the index when there is an
\* embedding model and something to index, unless Chroma raises
CreateVectorstore ==
  /\ last.op = "none"
  /\ kbClass = "Advanced"
  /\ \E chromaOk \in BOOLEAN :
       LET built == embeddings = "model" /\ HasIndexableFile(disk) /\ chromaOk
       IN  /\ (~(embeddings = "model" /\ HasIndexableFile(disk)) => chromaOk)
           /\ vectorstore' = IF built THEN "store" ELSE vectorstore
           /\ last' = Call("create_vectorstore_from_documents", << >>, << >>, 0,
                           FALSE, NotAsked,
                           IF embeddings = Unset THEN Raise("AttributeError")
                           ELSE Ret(IF built THEN "True" ELSE "False"))
  /\ UNCHANGED <<botVars, chunker>>
  /\ UNCHANGED <<IMPORT_SUCCESS, moduleState, disk, kbClass, documents,
                 embeddings, loads>>

\* kb.analyze_query(query) on an EnhancedKnowledgeBase; the method reads no
\* attribute of the object
AnalyzeQuery ==
  /\ last.op = "none"
  /\ kbClass = "Advanced"
  /\ \E query \in ClassifierQueries :
       last' = Call("analyze_query", query, << >>, 0, FALSE, NotAsked,
                    Ret(analyze_query(query)))
  /\ UNCHANGED <<botVars, chunker>>
  /\ UNCHANGED <<IMPORT_SUCCESS, moduleState, disk, kbClass, documents,
                 embeddings, vectorstore, loads>>

\* the caller takes the outcome; calls on the object are made one at a time
Return ==
  /\ last.op # "none"
  /\ last' = NoCall
  /\ UNCHANGED <<botVars, chunker>>
  /\ UNCHANGED <<IMPORT_SUCCESS, moduleState, disk, kbClass, documents,
                 embeddings, vectorstore, loads>>

KBNext ==
  \/ ConstructSimple
  \/ ConstructAdvancedNoLibrary
  \/ ConstructAdvancedModelFails
  \/ ConstructAdvancedModelOk
  \/ Search
  \/ GetDocumentCount
  \/ LoadExistingDocuments
  \/ SearchByType
  \/ CreateVectorstore
  \/ Return

-----------------------------------------------------------------------------
(* Vector-only knowledge base: src/scripts/app/ai/core.py *)

\* _load_existing_db: the index is loaded when its file is there and Chroma
\* opens it; otherwise, and when opening raises, vectorstore stays None
load_existing_db(index) == IF index = "loads" THEN "store" ELSE None

\* documents after the loop over file_paths: one per file that can be read
\* and is not blank
RECURSIVE ReadDocuments(_)
ReadDocuments(file_paths) ==
  IF file_paths = << >> THEN << >>
  ELSE LET file == Head(file_paths)
           rest == ReadDocuments(Tail(file_paths))
       IN  IF file.readable /\ Strip(file.text) # << >>
             THEN << [page_content |-> file.text, source |-> file.name] >> \o rest
             ELSE rest

\* what the splitter and Chroma do when load_documents hands them documents
ChromaOutcomes == {"ok", "from_documents_raises", "persist_raises"}

\* variant: the store is rebuilt even when no document was read
LoadDocumentsRebuilding(vs, builds, file_paths, chroma) ==
  IF chroma = "from_documents_raises"
    THEN [vectorstore |-> vs, loads |-> builds, out |-> Raise("Exception")]
    ELSE [vectorstore |-> "store", loads |-> builds + 1,
          out |-> IF chroma = "ok" THEN Ret(None) ELSE Raise("Exception")]

\* load_documents on an object whose vectorstore is vs and was built builds
\* times: the new vectorstore, the number of builds, the outcome of the call
load_documents(vs, builds, file_paths, chroma) ==
  IF ReadDocuments(file_paths) = << >>
    THEN [vectorstore |-> vs, loads |-> builds, out |-> Ret(None)]
  ELSE IF chroma = "from_documents_raises"
    THEN [vectorstore |-> vs, loads |-> builds, out |-> Raise("Exception")]
    ELSE [vectorstore |-> "store", loads |-> builds + 1,
          out |-> IF chroma = "ok" THEN Ret(None) ELSE Raise("Exception")]

\* KnowledgeBase.search of the scripts variant
VectorOnlySearch(vs, k, backend) ==
  IF vs = None THEN Ret(<< >>)
  ELSE IF backend.raises THEN Ret(<< >>)
  ELSE Ret(Top(backend.hits, k))

\* what self.vectorstore._collection.count() does if it is called
CountOutcomes ==
  {[raises |-> TRUE, n |-> 0]} \cup {[raises |-> FALSE, n |-> n] : n \in 0..2}

NotCounted == [raises |-> FALSE, n |-> 0]

\* KnowledgeBase.get_document_count of the scripts variant
VectorOnlyCount(vs, count) ==
  IF vs = None THEN Ret(0)
  ELSE IF count.raises THEN Ret(0)
  ELSE Ret(count.n)

\* KnowledgeBase() with a working embedding model
ConstructScripts ==
  /\ moduleState = "loaded"
  /\ IMPORT_SUCCESS
  /\ kbClass = "none"
  /\ last.op = "none"
  /\ \E index \in IndexStates : vectorstore' = load_existing_db(index)
  /\ kbClass' = "Scripts"
  /\ embeddings' = "model"
  /\ last' = Call("__init__", << >>, << >>, 0, FALSE, NotAsked, Ret(None))
  /\ UNCHANGED <<botVars, chunker>>
  /\ UNCHANGED <<IMPORT_SUCCESS, moduleState, disk, documents, loads>>

\* KnowledgeBase() when HuggingFaceEmbeddings raises: no object is made
ConstructScriptsFails ==
  /\ moduleState = "loaded"
  /\ IMPORT_SUCCESS
  /\ kbClass = "none"
  /\ last.op = "none"
  /\ last' = Call("__init__", << >>, << >>, 0, FALSE, NotAsked, Raise("Exception"))
  /\ UNCHANGED <<botVars, chunker>>
  /\ UNCHANGED <<IMPORT_SUCCESS, moduleState, disk, kbClass, documents,
                 embeddings, vectorstore, loads>>

\* kb.load_documents(text_files) with the files of data/texts
\* (process_all_laws.py:74)
ScriptsLoadDocuments ==
  /\ last.op = "none"
  /\ kbClass = "Scripts"
  /\ loads < MaxLoads
  /\ \E chroma \in ChromaOutcomes :
       LET r == load_documents(vectorstore, loads, disk.files, chroma)
       IN  /\ vectorstore' = r.vectorstore
           /\ loads' = r.loads
           /\ last' = Call("load_documents", << >>, << >>, 0, FALSE, NotAsked, r.out)
  /\ UNCHANGED <<botVars, chunker>>
  /\ UNCHANGED <<IMPORT_SUCCESS, moduleState, disk, kbClass, documents, embeddings>>

\* kb.search(query, k) on the scripts variant
ScriptsSearch ==
  /\ last.op = "none"
  /\ kbClass = "Scripts"
  /\ \E query \in Queries, k \in Limits, backend \in BackendOutcomes :
       LET asked == vectorstore # None
       IN  /\ (~asked => backend = NotAsked)
           /\ last' = Call("search", query, << >>, k, asked, backend,
                           VectorOnlySearch(vectorstore, k, backend))
  /\ UNCHANGED <<botVars, chunker>>
  /\ UNCHANGED <<IMPORT_SUCCESS, moduleState, disk, kbClass, documents,
                 embeddings, vectorstore, loads>>

\* kb.get_document_count() on the scripts variant
ScriptsGetDocumentCount ==
  /\ last.op = "none"
  /\ kbClass = "Scripts"
  /\ \E count \in CountOutcomes :
       LET asked == vectorstore # None
       IN  /\ (~asked => count = NotCounted)
           /\ last' = Call("get_document_count", << >>, << >>, 0, asked, count,
                           VectorOnlyCount(vectorstore, count))
  /\ UNCHANGED <<botVars, chunker>>
  /\ UNCHANGED <<IMPORT_SUCCESS, moduleState, disk, kbClass, documents,
                 embeddings, vectorstore, loads>>

ScriptsNext ==
  \/ ConstructScripts
  \/ ConstructScriptsFails
  \/ ScriptsLoadDocuments
  \/ ScriptsSearch
  \/ ScriptsGetDocumentCount
  \/ Return

-----------------------------------------------------------------------------
(* Chat handlers: src/app/main.py *)

\* The dispatcher runs one task per incoming message on a single asyncio
\* event loop.  A task gives the loop to the others only where it awaits
\* network I/O (message.answer, edit_text); FSMContext on the default
\* in-memory storage completes without suspending.  Between two such awaits
\* a handler's code runs with the loop to itself.

\* the kinds of message text the filters and handlers tell apart
MessageKinds == {"ask", "cancel", "short", "question", "command"}

\* the first handler, in registration order, whose filters pass (main.py:94-311)
HandlerFor(kind, state) ==
  CASE kind = "command" -> "cmd_start"
    [] kind = "ask" -> "ask_ai_question"
    [] kind = "cancel" -> "cancel_search"
    [] state = "waiting_for_question" -> "process_ai_question"
    [] OTHER -> "handle_general_message"

Task(user, kind) == [user |-> user, kind |-> kind, handler |-> "none", pc |-> "new"]

TaskIds == 1..Len(tasks)

\* whether the event loop can start the handler of task t
CanDispatch(t) == loop = 0 /\ tasks[t].pc = "new"

BotInit ==
  /\ AI_ENABLED \in BOOLEAN
  /\ fsm = [u \in Users |-> "none"]
  /\ tasks = << >>
  /\ loop = 0

\* a user sends a message
Receive ==
  /\ Len(tasks) < MaxMessages
  /\ \E u \in Users, kind \in MessageKinds :
       tasks' = Append(tasks, Task(u, kind))
  /\ UNCHANGED <<AI_ENABLED, fsm, loop>>
  /\ UNCHANGED <<kbVars, chunker>>

\* variant: ask_ai_question enters the waiting state without looking at
\* AI_ENABLED
FirstSegmentAlwaysWaiting(handler, kind, state) ==
  CASE handler = "ask_ai_question" ->
         [fsm |-> "waiting_for_question", pc |-> "answering"]
    [] handler = "cancel_search" -> [fsm |-> "none", pc |-> "answering"]
    [] handler = "process_ai_question" ->
         [fsm |-> state, pc |-> IF kind = "short" THEN "answering" ELSE "announcing"]
    [] OTHER -> [fsm |-> state, pc |-> "answering"]

\* the handler's code up to its first network await
FirstSegment(handler, kind, state) ==
  CASE handler = "ask_ai_question" ->
         [fsm |-> IF AI_ENABLED THEN "waiting_for_question" ELSE state,
          pc |-> "answering"]
    [] handler = "cancel_search" -> [fsm |-> "none", pc |-> "answering"]
    [] handler = "process_ai_question" ->
         [fsm |-> state, pc |-> IF kind = "short" THEN "answering" ELSE "announcing"]
    [] OTHER -> [fsm |-> state, pc |-> "answering"]

\* the loop picks a received message, finds its handler and runs it up to
\* the first await
Dispatch ==
  \E t \in TaskIds :
    /\ CanDispatch(t)
    /\ LET u == tasks[t].user
           handler == HandlerFor(tasks[t].kind, fsm[u])
           seg == FirstSegment(handler, tasks[t].kind, fsm[u])
       IN  /\ fsm' = [fsm EXCEPT ![u] = seg.fsm]
           /\ tasks' = [tasks EXCEPT ![t].handler = handler, ![t].pc = seg.pc]
    /\ UNCHANGED <<AI_ENABLED, loop>>
    /\ UNCHANGED <<kbVars, chunker>>

\* process_ai_question resumes after "Ищу информацию" is sent and enters
\* kb.analyze_query / kb.search (main.py:185-188), called without await
SearchBegin ==
  \E t \in TaskIds :
    /\ loop = 0
    /\ tasks[t].pc = "announcing"
    /\ tasks' = [tasks EXCEPT ![t].pc = "searching"]
    /\ loop' = t
    /\ UNCHANGED <<AI_ENABLED, fsm>>
    /\ UNCHANGED <<kbVars, chunker>>

\* the search returns results, returns none, or raises (main.py:190, 202, 267);
\* the handler then awaits edit_text
SearchEnd ==
  \E t \in TaskIds :
    /\ loop = t
    /\ tasks[t].pc = "searching"
    /\ \E outcome \in {"editing_found", "editing_empty", "editing_failed"} :
         tasks' = [tasks EXCEPT ![t].pc = outcome]
    /\ loop' = 0
    /\ UNCHANGED <<AI_ENABLED, fsm>>
    /\ UNCHANGED <<kbVars, chunker>>

\* edit_text of the Markdown answer raises and the except branch takes over
\* (main.py:252-258, 267)
EditRaises ==
  \E t \in TaskIds :
    /\ loop = 0
    /\ tasks[t].pc = "editing_found"
    /\ tasks' = [tasks EXCEPT ![t].pc = "editing_failed"]
    /\ UNCHANGED <<AI_ENABLED, fsm, loop>>
    /\ UNCHANGED <<kbVars, chunker>>

\* edit_text completes; state.clear() and the closing message.answer
\* (main.py:198-199, 261-262, 273-274)
EditDone ==
  \E t \in TaskIds :
    /\ loop = 0
    /\ tasks[t].pc \in {"editing_found", "editing_empty", "editing_failed"}
    /\ fsm' = [fsm EXCEPT ![tasks[t].user] = "none"]
    /\ tasks' = [tasks EXCEPT ![t].pc = "answering"]
    /\ UNCHANGED <<AI_ENABLED, loop>>
    /\ UNCHANGED <<kbVars, chunker>>

\* the handler's last message.answer completes and the handler returns
Finish ==
  \E t \in TaskIds :
    /\ loop = 0
    /\ tasks[t].pc = "answering"
    /\ tasks' = [tasks EXCEPT ![t].pc = "done"]
    /\ UNCHANGED <<AI_ENABLED, fsm, loop>>
    /\ UNCHANGED <<kbVars, chunker>>

BotNext ==
  \/ Receive
  \/ Dispatch
  \/ SearchBegin
  \/ SearchEnd
  \/ EditRaises
  \/ EditDone
  \/ Finish

-----------------------------------------------------------------------------
(* simple_split_text, one loop iteration at a time *)

\* the characters texts are made of: a letter and the characters the
\* separators of core.py:73 are made of
TextChars == {"a", ".", " ", "\n"}

Texts == UNION {[1..n -> TextChars] : n \in 0..MaxTextLen}

ChunkSizes == 1..MaxChunkSize

\* no call is running
NoSplit ==
  [pc |-> "none", text |-> << >>, chunk_size |-> 1, start |-> 0,
   chunks |-> << >>, cuts |-> << >>]

\* core.py:65-67 on entry; cuts lists the (start, end) of the iterations run
SplitEntry(text, chunk_size) ==
  [pc |-> "loop", text |-> text, chunk_size |-> chunk_size, start |-> 0,
   chunks |-> << >>, cuts |-> << >>]

ChunkInit == chunker \in {SplitEntry(t, c) : t \in Texts, c \in ChunkSizes}

\* one iteration of the while loop (core.py:69-83)
SplitIteration ==
  /\ chunker.pc = "loop"
  /\ chunker.start < Len(chunker.text)
  /\ LET end == CutEnd(chunker.text, chunker.start, chunker.chunk_size)
         chunk == ChunkOf(chunker.text, chunker.start, end)
     IN  chunker' = [chunker EXCEPT
                       !.chunks = IF chunk # << >> THEN Append(@, chunk) ELSE @,
                       !.cuts = Append(@, <<chunker.start, end>>),
                       !.start = end]
  /\ UNCHANGED <<kbVars, botVars>>

\* the loop condition fails and the chunks are returned (core.py:85)
SplitReturn ==
  /\ chunker.pc = "loop"
  /\ ~(chunker.start < Len(chunker.text))
  /\ chunker' = [chunker EXCEPT !.pc = "returned"]
  /\ UNCHANGED <<kbVars, botVars>>

ChunkNext ==
  \/ SplitIteration
  \/ SplitReturn

-----------------------------------------------------------------------------
(* Specifications *)

\* the knowledge base on its own: no bot is running
NoBot ==
  /\ AI_ENABLED = FALSE
  /\ fsm = [u \in Users |-> "none"]
  /\ tasks = << >>
  /\ loop = 0

\* the bot on its own: the knowledge base module is loaded, no object is followed
NoKB ==
  /\ IMPORT_SUCCESS = TRUE
  /\ moduleState = "loaded"
  /\ disk = [exists |-> FALSE, files |-> << >>]
  /\ kbClass = "none"
  /\ documents = NoList
  /\ embeddings = Unset
  /\ vectorstore = Unset
  /\ loads = 0
  /\ last = NoCall

Init == KBInit /\ NoBot /\ chunker = NoSplit

Next == KBNext

Spec == Init /\ [][Next]_vars

InitBot == BotInit /\ NoKB /\ chunker = NoSplit

NextBot == BotNext

SpecBot == InitBot /\ [][NextBot]_vars

\* the classifier on an EnhancedKnowledgeBase however it was constructed
InitClassify == Init /\ ~disk.exists

NextClassify ==
  \/ ConstructAdvancedNoLibrary
  \/ ConstructAdvancedModelFails
  \/ ConstructAdvancedModelOk
  \/ AnalyzeQuery
  \/ Return

SpecClassify == InitClassify /\ [][NextClassify]_vars

\* the scripts variant imports LangChain unguarded (scripts core.py:4-7): its
\* module loads only with the library
InitScripts == Init /\ IMPORT_SUCCESS

NextScripts == ScriptsNext

SpecScripts == InitScripts /\ [][NextScripts]_vars

InitChunk == ChunkInit /\ NoKB /\ NoBot

NextChunk == ChunkNext

SpecChunk == InitChunk /\ [][NextChunk]_vars

\* the calls followed to their return
InitChunkFair ==
  /\ InitChunk
  /\ Len(chunker.text) <= MaxFollowedLen

\* a call that has begun keeps running: the interpreter executes the next
\* iteration or the return whenever there is one to execute
SpecChunkFair == InitChunkFair /\ [][NextChunk]_vars /\ WF_vars(NextChunk)

-----------------------------------------------------------------------------
(* Properties of construction and fallback *)

\* the call the caller holds is a search answered by the lexical scorer
LexicalReturned ==
  /\ last.op = "search"
  /\ last.out.kind = "ret"
  /\ (last.asked => last.backend.raises)

\* what SimpleKnowledgeBase.search returns for the call's query and limit over
\* the corpus on disk
LexicalOverDisk == LexicalResults(DiskFragments(disk), last.query, last.k)

\* C1: on an AdvancedKnowledgeBase whose embedding model initialized and whose
\* index is missing, failed to load, or raises on the query, search(q, k)
\* raises nothing and returns what lexical search returns over the same corpus.
C1_FallbackTransparent ==
  (/\ last.op = "search"
   /\ kbClass = "Advanced"
   /\ embeddings = "model"
   /\ (vectorstore = None \/ (last.asked /\ last.backend.raises)))
  => (last.out.kind = "ret" /\ last.out.val = LexicalOverDisk)

\* C2: on an AdvancedKnowledgeBase built without the library or without a
\* working embedding model, every search(q, k) returns the lexical result
\* list over the loaded fragments and raises nothing.
C2_DegradedSearchReturns ==
  (/\ last.op = "search"
   /\ kbClass = "Advanced"
   /\ embeddings # "model")
  => (/\ last.out.kind = "ret"
      /\ documents.set
      /\ last.out.val = LexicalResults(documents.items, last.query, last.k))

\* C3: on a KnowledgeBase (AdvancedKnowledgeBase) built along any construction
\* path, get_document_count() returns the number of fragments, without raising.
C3_CountOnEveryPath ==
  (last.op = "get_document_count" /\ kbClass = "Advanced")
  => (/\ last.out.kind = "ret"
      /\ last.out.val \in Nat
      /\ (documents.set => last.out.val = Len(documents.items)))

-----------------------------------------------------------------------------
(* Properties of lexical search *)

QueryWords == Split(Lower(last.query))

\* the query words long enough to be scored, as a set
UsableTerms == {w \in {QueryWords[i] : i \in 1..Len(QueryWords)} : Len(w) > 3}

TermsIn(content) == {w \in UsableTerms : Contains(Lower(content), w)}

\* the positions of the query words that are scored and occur in content
HitPositions(content) ==
  {i \in 1..Len(QueryWords) :
     Len(QueryWords[i]) > 3 /\ Contains(Lower(content), QueryWords[i])}

\* C4 as stated: the score of a returned fragment is the number of distinct
\* usable query terms occurring in it divided by the number of usable query
\* terms; repeated and too-short terms do not change it.
C4_ScoreDistinctOverUsable ==
  LexicalReturned =>
    \A i \in 1..Len(last.out.val) :
      LET r == last.out.val[i]
      IN  r.score.num * Cardinality(UsableTerms)
            = Cardinality(TermsIn(r.content)) * r.score.den

\* C4 amended: the score of a returned fragment is the number of query words,
\* each repetition counted, that are longer than 3 characters and occur in the
\* lowercased fragment text, divided by the number of all whitespace-separated
\* query words, the too-short ones included; it never exceeds 1.
C4_ScoreCountsEveryWord ==
  LexicalReturned =>
    \A i \in 1..Len(last.out.val) :
      LET r == last.out.val[i]
      IN  /\ r.score.num * Len(QueryWords)
               = Cardinality(HitPositions(r.content)) * r.score.den
          /\ r.score.num <= r.score.den

\* a fragment scored 2/3 by a query with one usable term: the term is
\* repeated and a too-short word is in the denominator
C4_Witness ==
  /\ LexicalReturned
  /\ Cardinality(UsableTerms) = 1
  /\ \E i \in 1..Len(last.out.val) :
       last.out.val[i].score = [num |-> 2, den |-> 3]

RECURSIVE Repeat(_, _)
Repeat(xs, n) == IF n = 0 THEN << >> ELSE xs \o Repeat(xs, n - 1)

\* C5 as stated: a load on an already loaded store replaces the fragments, so
\* the store is the same as after one load.
C5_LoadReplaces ==
  (last.op = "load_existing_documents" /\ last.out.kind = "ret")
  => documents.items = DiskFragments(disk)

\* C5 amended: load_existing_documents keeps the fragments already in the
\* store and appends the files' fragments after them; after n completed loads
\* of the same files the store holds the fragment sequence n times over.  Only
\* construction starts from an empty store.
C5_LoadAppends ==
  documents.set => documents.items = Repeat(DiskFragments(disk), loads)

C5_Witness ==
  /\ last.op = "load_existing_documents"
  /\ last.out.kind = "ret"
  /\ loads = 2
  /\ DiskFragments(disk) # << >>
  /\ Len(documents.items) = 2 * Len(DiskFragments(disk))

\* the fragment a result was built from
FragmentOf(r) ==
  [content |-> r.content, source |-> r.source, chunk |-> r.chunk, type |-> r.type]

\* C7: the list lexical search returns is ordered by non-increasing score, and
\* results of equal score are in the order their fragments have in the store.
C7_RankingStable ==
  LexicalReturned =>
    \A i, j \in 1..Len(last.out.val) :
      i < j =>
        LET a == last.out.val[i]
            b == last.out.val[j]
        IN  /\ ~FracLess(a.score, b.score)
            /\ FracEq(a.score, b.score) =>
                 \E p, q \in 1..Len(documents.items) :
                   /\ p < q
                   /\ documents.items[p] = FragmentOf(a)
                   /\ documents.items[q] = FragmentOf(b)

\* three results: the first comes from a later fragment than the second, and
\* the second and third tie
C7_Witness ==
  /\ LexicalReturned
  /\ loads = 1
  /\ Len(last.out.val) = 3
  /\ FracLess(last.out.val[2].score, last.out.val[1].score)
  /\ FracEq(last.out.val[2].score, last.out.val[3].score)
  /\ documents.items[1] = FragmentOf(last.out.val[2])
  /\ documents.items[2] = FragmentOf(last.out.val[1])

\* C8: lexical search returns at most k results, and none for k = 0.
C8_LimitRespected ==
  LexicalReturned =>
    /\ Len(last.out.val) <= last.k
    /\ (last.k = 0 => last.out.val = << >>)

\* a search cut short: more fragments qualify than the limit lets through
C8_Witness ==
  /\ LexicalReturned
  /\ last.k >= 1
  /\ Len(last.out.val) = last.k
  /\ Len(Scored(documents.items, QueryWords)) > last.k

\* C9: every result of lexical search has a score s with 0 < s <= 1, and a
\* fragment in which no usable query term occurs is not among the results.
C9_ScoreBounded ==
  LexicalReturned =>
    \A i \in 1..Len(last.out.val) :
      LET r == last.out.val[i]
      IN  /\ 0 < r.score.num
          /\ r.score.num <= r.score.den
          /\ TermsIn(r.content) # {}

\* a search whose limit is not reached and that leaves a fragment out
C9_Witness ==
  /\ LexicalReturned
  /\ last.out.val # << >>
  /\ Len(last.out.val) < last.k
  /\ \E p \in 1..Len(documents.items) :
       /\ TermsIn(documents.items[p].content) = {}
       /\ \A i \in 1..Len(last.out.val) :
            FragmentOf(last.out.val[i]) # documents.items[p]

\* the sources of the fragments a search can return: those of the store, or
\* those of the index when it answers
NoSourceHas(doc_type) ==
  /\ \A p \in 1..Len(documents.items) :
       ~Contains(Lower(documents.items[p].source), Lower(doc_type))
  /\ \A i \in 1..Len(last.backend.hits) :
       ~Contains(Lower(last.backend.hits[i].source), Lower(doc_type))

\* C10: with a category that is a substring of no fragment's source, or with
\* no category, search_by_type(q, category, k) returns the sequence that
\* search(q, k) returns.
C10_CategoryFallback ==
  (/\ last.op = "search_by_type"
   /\ (last.doc_type = << >> \/ NoSourceHas(last.doc_type)))
  => LET plain == SelfSearch(kbClass, vectorstore, embeddings, documents,
                             IMPORT_SUCCESS, last.query, last.k, last.backend)
     IN  /\ last.out.kind = "ret"
         /\ plain.kind = "ret"
         /\ last.out.val = plain.val

-----------------------------------------------------------------------------
(* Properties of the chat handlers *)

\* C6: while the handler of one user's question is inside the search, a
\* message from another user can be handled: the search does not hold the
\* event loop.
C6_SearchOffEventLoop ==
  \A t, m \in TaskIds :
    (/\ tasks[t].pc = "searching"
     /\ tasks[m].pc = "new"
     /\ tasks[m].user # tasks[t].user)
    => CanDispatch(m)

-----------------------------------------------------------------------------
(* Properties of the chunker *)

RECURSIVE Flatten(_)
Flatten(ss) == IF ss = << >> THEN << >> ELSE Head(ss) \o Flatten(Tail(ss))

IsInk(c) == c \notin Whitespace

\* the characters of s that are not whitespace, in order
Ink(s) == SelectSeq(s, IsInk)

\* the untrimmed segment of iteration i
Segment(i) == Slice(chunker.text, chunker.cuts[i][1], chunker.cuts[i][2])

\* C12: the untrimmed segments the splitter cuts are non-empty and
\* consecutive: the first begins at 0, each begins where the one before
\* ended, and when the call returns the last one reaches the end of the text;
\* the chunks, concatenated in order, hold the non-whitespace characters of
\* the text cut so far, each once and in order.
C12_SegmentsTileText ==
  chunker.pc # "none" =>
    LET cuts == chunker.cuts
        n == Len(cuts)
    IN  /\ \A i \in 1..n : cuts[i][1] < cuts[i][2]
        /\ n > 0 => cuts[1][1] = 0
        /\ \A i \in 1..(n - 1) : cuts[i + 1][1] = cuts[i][2]
        /\ chunker.start = IF n = 0 THEN 0 ELSE cuts[n][2]
        /\ chunker.pc = "returned" => chunker.start >= Len(chunker.text)
        /\ Flatten([i \in 1..n |-> Segment(i)])
             = Slice(chunker.text, 0, chunker.start)
        /\ Ink(Flatten(chunker.chunks))
             = Ink(Slice(chunker.text, 0, chunker.start))

\* a returned call that cut several segments and trimmed whitespace off one
C12_Witness ==
  /\ chunker.pc = "returned"
  /\ Len(chunker.cuts) >= 3
  /\ Len(chunker.chunks) >= 2
  /\ Len(Flatten(chunker.chunks)) < Len(chunker.text)
  /\ \E i \in 1..Len(chunker.cuts) : Segment(i) # Strip(Segment(i))

\* C13: every chunk is non-empty, begins and ends with a character that is
\* not whitespace, and is at most chunk_size characters long.
C13_ChunkBounded ==
  \A i \in 1..Len(chunker.chunks) :
    LET chunk == chunker.chunks[i]
    IN  /\ chunk # << >>
        /\ chunk[1] \notin Whitespace
        /\ chunk[Len(chunk)] \notin Whitespace
        /\ Len(chunk) <= chunker.chunk_size

\* a returned call with a chunk of exactly chunk_size characters, a shorter
\* one, and a segment that was whitespace only
C13_Witness ==
  /\ chunker.pc = "returned"
  /\ chunker.chunk_size >= 2
  /\ \E i, j \in 1..Len(chunker.chunks) :
       /\ Len(chunker.chunks[i]) = chunker.chunk_size
       /\ Len(chunker.chunks[j]) < chunker.chunk_size
  /\ Len(chunker.chunks) < Len(chunker.cuts)

\* the positions at which sep lies wholly inside text[start:edge]
Occurrences(sep, start, edge) ==
  {p \in start..(edge - Len(sep)) :
     Slice(chunker.text, p, p + Len(sep)) = sep}

\* the cut the separator priority asks for in the window from start
PriorityCut(start) ==
  LET edge == start + chunker.chunk_size
      seps == << <<".", " ">>, <<"\n", "\n">>, <<"\n">>, <<" ">> >>
      found == {s \in 1..4 : Occurrences(seps[s], start, edge) # {}}
  IN  IF edge < Len(chunker.text) /\ found # {}
        THEN LET s == CHOOSE x \in found : \A y \in found : x <= y
                 at == Occurrences(seps[s], start, edge)
             IN  (CHOOSE p \in at : \A q \in at : q <= p) + Len(seps[s])
        ELSE edge

\* C20: when the window [start, start + chunk_size) ends before the end of
\* the text, the cut falls right after the last occurrence inside the window
\* of the first of '. ', blank line, newline, space that occurs in the
\* window; with no separator in the window, or a window that reaches the end
\* of the text, the cut falls at the window's edge.
C20_BoundaryChoice ==
  \A i \in 1..Len(chunker.cuts) :
    chunker.cuts[i][2] = PriorityCut(chunker.cuts[i][1])

\* a cut after '. ' although a space lies later in the window, in a call
\* whose last window reaches the end of the text and is cut at its edge
C20_Witness ==
  /\ chunker.pc = "returned"
  /\ \E i \in 1..Len(chunker.cuts) :
       LET start == chunker.cuts[i][1]
           end == chunker.cuts[i][2]
           edge == start + chunker.chunk_size
       IN  /\ edge < Len(chunker.text)
           /\ end >= start + 2
           /\ Slice(chunker.text, end - 2, end) = <<".", " ">>
           /\ \E p \in end..(edge - 1) : chunker.text[p + 1] = " "
  /\ LET n == Len(chunker.cuts)
     IN  /\ chunker.cuts[n][2] = chunker.cuts[n][1] + chunker.chunk_size
         /\ chunker.cuts[n][2] >= Len(chunker.text)

-----------------------------------------------------------------------------
(* Properties of the category filter *)

\* what self.search(query, k * 3) handed to the search_by_type call in last
Candidates ==
  SelfSearch(kbClass, vectorstore, embeddings, documents, IMPORT_SUCCESS,
             last.query, last.k * 3, last.backend)

\* the positions of the candidates whose source contains the category,
\* letter case ignored
Matching(all, doc_type) ==
  {p \in 1..Len(all) : Contains(Lower(all[p].source), Lower(doc_type))}

\* the j-th smallest member of a set of positions
Nth(ps, j) == CHOOSE p \in ps : Cardinality({q \in ps : q <= p}) = j

\* C11: when self.search(q, 3k) hands back candidates, search_by_type with a
\* category that at least one candidate's source contains returns the first
\* k such candidates in ranked order and nothing else; with no category, or
\* one no candidate's source contains, it returns the first k candidates; for
\* k >= 1 the answer is empty only if there are no candidates.
C11_CategoryFilter ==
  (last.op = "search_by_type" /\ Candidates.kind = "ret") =>
    LET all == Candidates.val
        ps == IF last.doc_type = << >> THEN {} ELSE Matching(all, last.doc_type)
        n == IF Cardinality(ps) < last.k THEN Cardinality(ps) ELSE last.k
    IN  /\ last.out.kind = "ret"
        /\ ps # {} =>
             /\ Len(last.out.val) = n
             /\ \A j \in 1..n : last.out.val[j] = all[Nth(ps, j)]
        /\ ps = {} => last.out.val = Slice(all, 0, last.k)
        /\ (last.k >= 1 /\ all # << >>) => last.out.val # << >>

\* a filtered answer cut to k that differs from the unfiltered top k
C11_Witness ==
  /\ last.op = "search_by_type"
  /\ Candidates.kind = "ret"
  /\ last.out.kind = "ret"
  /\ last.doc_type # << >>
  /\ last.k >= 1
  /\ Cardinality(Matching(Candidates.val, last.doc_type)) > last.k
  /\ Len(last.out.val) = last.k
  /\ last.out.val # Slice(Candidates.val, 0, last.k)

-----------------------------------------------------------------------------
(* Properties of ingestion *)

\* the store of a knowledge base built over a directory that holds only file
Alone(file) ==
  load_existing_documents(List(<< >>), [exists |-> TRUE, files |-> <<file>>])
    .documents.items

\* the fragments of the readable files, each as ingested alone, in file order
ReadableAlone ==
  Flatten([i \in 1..Len(disk.files) |->
             IF disk.files[i].readable THEN Alone(disk.files[i]) ELSE << >>])

\* C14: a file whose read raises contributes no fragment to the store, and
\* the store holds, for each ingestion run, the fragments every readable file
\* contributes when ingested alone, in file order.
C14_FaultIsolation ==
  (documents.set /\ disk.exists) =>
    /\ documents.items = Repeat(ReadableAlone, loads)
    /\ \A i \in 1..Len(disk.files), p \in 1..Len(documents.items) :
         ~disk.files[i].readable => documents.items[p].source # disk.files[i].name

\* a loaded store over a directory where an unreadable file lies between two
\* files that both contributed fragments
C14_Witness ==
  /\ documents.set
  /\ loads >= 1
  /\ \E i, j, l \in 1..Len(disk.files) :
       /\ i < j /\ j < l
       /\ ~disk.files[j].readable
       /\ \E p, q \in 1..Len(documents.items) :
            /\ p < q
            /\ documents.items[p].source = disk.files[i].name
            /\ documents.items[q].source = disk.files[l].name

\* the fragments appended by the n-th ingestion run
Block(n) ==
  LET size == Len(documents.items) \div loads
  IN  SubSeq(documents.items, (n - 1) * size + 1, n * size)

\* the chunk list of the file called name
ChunksOf(name) ==
  LET file == CHOOSE f \in {disk.files[i] : i \in 1..Len(disk.files)} :
                f.name = name
  IN  IF file.readable
        THEN simple_split_text(file.text, ChunkSizeDefault)
        ELSE << >>

\* C15: in the fragments an ingestion run appends, every fragment carries the
\* name of a file and an index that is the zero-based position of its content
\* in that file's chunk list; the fragments of one file are adjacent, with
\* indices 0, 1, ..., n-1 in this order, n the length of the chunk list; a
\* file that is empty or whitespace only contributes none.
C15_Provenance ==
  (documents.set /\ loads >= 1) =>
    /\ Len(documents.items) = loads * (Len(documents.items) \div loads)
    /\ \A n \in 1..loads :
         LET block == Block(n)
         IN  /\ \A p \in 1..Len(block) :
                  LET frag == block[p]
                      chunks == ChunksOf(frag.source)
                  IN  /\ \E i \in 1..Len(disk.files) :
                           disk.files[i].name = frag.source
                      /\ frag.chunk \in 0..(Len(chunks) - 1)
                      /\ frag.content = chunks[frag.chunk + 1]
                      /\ frag.chunk = 0 =>
                           (p = 1 \/ block[p - 1].source # frag.source)
                      /\ frag.chunk > 0 =>
                           /\ block[p - 1].source = frag.source
                           /\ block[p - 1].chunk = frag.chunk - 1
             /\ \A i \in 1..Len(disk.files) :
                  Cardinality({p \in 1..Len(block) :
                                 block[p].source = disk.files[i].name})
                    = Len(ChunksOf(disk.files[i].name))

\* a store with the two fragments of one file, indices 0 and 1, followed by
\* the fragment of the next file, index 0
C15_Witness ==
  /\ documents.set
  /\ loads >= 1
  /\ \E p \in 1..(Len(documents.items) - 2) :
       /\ documents.items[p].chunk = 0
       /\ documents.items[p + 1].chunk = 1
       /\ documents.items[p + 1].source = documents.items[p].source
       /\ documents.items[p + 2].chunk = 0
       /\ documents.items[p + 2].source # documents.items[p].source

-----------------------------------------------------------------------------
(* Properties of searches without results *)

\* the search call in last ran SimpleKnowledgeBase.search: on a
\* SimpleKnowledgeBase directly, on an AdvancedKnowledgeBase through
\* super().search at core.py:182 or core.py:190
LexicalRuns ==
  /\ last.op = "search"
  /\ \/ kbClass = "Simple"
     \/ /\ kbClass = "Advanced"
        /\ vectorstore # Unset
        /\ \/ vectorstore = None
           \/ embeddings = None
           \/ embeddings # Unset /\ last.asked /\ last.backend.raises

\* C16: a lexical search whose query is empty, whitespace only or without a
\* word longer than 3 characters, and a lexical search over a store of zero
\* fragments, returns the empty sequence and does not raise.
C16_NoResultsNoError ==
  (/\ LexicalRuns
   /\ \/ UsableTerms = {}
      \/ documents.set /\ documents.items = << >>)
  => (last.out.kind = "ret" /\ last.out.val = << >>)

-----------------------------------------------------------------------------
(* Properties of the store under searches *)

-----------------------------------------------------------------------------
(* Properties of the query classifier *)

Laws == {Keywords[i].law : i \in 1..Len(Keywords)}

\* the position of a category in the keyword table
TableIndex(law) == CHOOSE i \in 1..Len(Keywords) : Keywords[i].law = law

\* how many keywords of the category occur in the lowercased query of last
Occurring(law) ==
  LET words == Keywords[TableIndex(law)].words
  IN  Cardinality({w \in {words[i] : i \in 1..Len(words)} :
                     Contains(Lower(last.query), w)})

Min(a, b) == IF a < b THEN a ELSE b

\* C17: analyze_query suggests at most 3 categories, the 3 first of those
\* with a keyword in the query (all of them when fewer); each comes with the
\* number of its keywords that occur in the lowercased query, which is
\* positive; counts do not increase along the list, equal counts are in
\* keyword-table order, and no category left out has a higher count than
\* one suggested.
C17_ClassifierOrdering ==
  last.op = "analyze_query" =>
    LET sug == last.out.val.suggested_laws
        n == Len(sug)
    IN  /\ n = Min(3, Cardinality({law \in Laws : Occurring(law) > 0}))
        /\ \A i \in 1..n :
             /\ sug[i].law \in Laws
             /\ sug[i].score > 0
             /\ sug[i].score = Occurring(sug[i].law)
        /\ \A i, j \in 1..n :
             i < j =>
               /\ sug[i].score >= sug[j].score
               /\ sug[i].score = sug[j].score
                    => TableIndex(sug[i].law) < TableIndex(sug[j].law)
        /\ \A law \in Laws :
             (\A i \in 1..n : sug[i].law # law)
               => \A i \in 1..n : Occurring(law) <= sug[i].score

\* four categories match; the one suggested first is third in the table and
\* the two after it tie and are in table order; one is left out
C17_Witness ==
  /\ last.op = "analyze_query"
  /\ Cardinality({law \in Laws : Occurring(law) > 0}) = 4
  /\ LET sug == last.out.val.suggested_laws
     IN  /\ Len(sug) = 3
         /\ sug[1].law = "2464_pp"
         /\ sug[1].score = 2
         /\ sug[2].score = 1
         /\ sug[3].score = 1

RECURSIVE SumOver(_)
SumOver(laws) ==
  IF laws = {} THEN 0
  ELSE LET law == CHOOSE l \in laws : TRUE
       IN  Occurring(law) + SumOver(laws \ {law})

\* C18: total_matches is the sum over all five categories of the number of
\* their keywords in the query; it is at least the sum of the suggested
\* counts, and it is 0 exactly when no category is suggested.
C18_ClassifierTotal ==
  last.op = "analyze_query" =>
    LET sug == last.out.val.suggested_laws
        total == last.out.val.total_matches
    IN  /\ total = SumOver(Laws)
        /\ total >= SumScores(sug)
        /\ total = 0 <=> sug = << >>

\* four categories match, so the total exceeds the sum of the three suggested
C18_Witness ==
  /\ last.op = "analyze_query"
  /\ Len(last.out.val.suggested_laws) = 3
  /\ last.out.val.total_matches > SumScores(last.out.val.suggested_laws)

-----------------------------------------------------------------------------
(* Termination of the chunker *)

\* C21: every call of simple_split_text returns, and every iteration of its
\* loop leaves start strictly greater than it found it.
C21_ChunkerTerminates ==
  /\ [][(chunker.pc = "loop" /\ chunker'.pc = "loop")
          => chunker'.start > chunker.start]_vars
  /\ <>(chunker.pc = "returned")

\* a returned call in which a separator lay at the very start of a window
\* that ended before the end of the text, so that the cut moved start by the
\* separator's length only
C21_Witness ==
  /\ chunker.pc = "returned"
  /\ chunker.chunk_size >= 2
  /\ \E i \in 1..Len(chunker.cuts) :
       LET start == chunker.cuts[i][1]
           end == chunker.cuts[i][2]
       IN  /\ start + chunker.chunk_size < Len(chunker.text)
           /\ end = start + 1
           /\ chunker.text[start + 1] \in Whitespace

-----------------------------------------------------------------------------
(* Properties of the conversation state *)

\* task t is a message that process_ai_question handles: one received in the
\* waiting_for_question state that no earlier handler's filter takes
AsQuestion(t) == tasks'[t].handler = "process_ai_question"

-----------------------------------------------------------------------------
(* Properties of the vector-only knowledge base *)

\* every file is unreadable, empty or whitespace only
NothingToRead(file_paths) ==
  \A i \in 1..Len(file_paths) :
    ~file_paths[i].readable \/ Strip(file_paths[i].text) = << >>

\* C23: on the scripts variant, search returns the empty list and
\* get_document_count returns 0 when vectorstore is None and when the call to
\* the index raises; load_documents over files that are all unreadable or
\* blank returns and leaves vectorstore as it was, without a build.
C23_VectorOnlyReads ==
  [][kbClass = "Scripts" =>
       /\ (/\ last'.op = "search"
           /\ (vectorstore = None \/ last'.backend.raises))
          => (last'.out.kind = "ret" /\ last'.out.val = << >>)
       /\ (/\ last'.op = "get_document_count"
           /\ (vectorstore = None \/ last'.backend.raises))
          => (last'.out.kind = "ret" /\ last'.out.val = 0)
       /\ last'.op \in {"search", "get_document_count"}
          => (last'.out.kind = "ret" /\ vectorstore' = vectorstore /\ loads' = loads)
       /\ (last'.op = "load_documents" /\ NothingToRead(disk.files))
          => /\ last'.out.kind = "ret"
             /\ vectorstore' = vectorstore
             /\ loads' = loads]_vars

\* load_documents has returned on an object whose index was loaded from disk,
\* over a directory whose files are unreadable or blank
C23_Witness ==
  /\ kbClass = "Scripts"
  /\ last.op = "load_documents"
  /\ last.out.kind = "ret"
  /\ disk.files # << >>
  /\ NothingToRead(disk.files)
  /\ vectorstore = "store"
  /\ loads = 0

=============================================================================
